---------------------------- MODULE Spec2Model ----------------------------
(***************************************************************************)
(* Model of src/clipboard_manager.py: the HISTORY / YANK clipboard stacks  *)
(* (class HistoryList), the command dispatcher (class ClipboardManager),   *)
(* the yank-mode toggle and the copy/cut listener.                         *)
(*                                                                         *)
(* HistoryList objects live in a heap, because the program replaces the    *)
(* YANK global by a fresh object (YANK = HistoryList()) while the          *)
(* dispatcher (self.List), the quick-panel callback (its closure variable  *)
(* List) and the buffer view (Buffer_list) may still hold the old object.  *)
(*                                                                         *)
(* Python values: a list is a sequence (Python position i is TLA+ position *)
(* i + 1); None is the integer None below; an exception ends the command   *)
(* at the statement that raises, keeping the assignments made before it.   *)
(*                                                                         *)
(* Left out, as they never feed back into the stacks: clip_syntaxes (a     *)
(* list kept parallel to clips, used for display only), the indent flag    *)
(* (it only selects 'paste_and_indent' over 'paste'), output panels and    *)
(* popups other than their messages.                                       *)
(***************************************************************************)
EXTENDS Integers, Sequences, FiniteSets, TLC

(***************************************************************************)
(* Bounds of the model.                                                    *)
(***************************************************************************)
\* HistoryList.max_clips is 256 in the source (line 188); the model runs the
\* same code with a small capacity: MaxClips under every combination of the
\* settings, MaxClips + 1 under the default settings.
MaxClips == 2
\* Largest number of selections (cursors) of the view at a copy/cut.
MaxSel == 2
\* Heap cells: HISTORY, YANK, self.List, the panel's List and Buffer_list can
\* name at most five different objects.
NAddr == 5

\* The payloads a copy or cut can put on the clipboard.
Texts == {"a", "b"}
\* The text of a selection: a payload, or nothing (an empty selection).
SelTexts == Texts \cup {""}
\* What the clipboard holds when the plugin is loaded (one text stands for
\* all: the program never looks into a payload).
StartTexts == {"a"}

\* Python's None, for HistoryList.__index and ClipboardManager.idx.
None == -9
\* No object (the class attributes List = None and an unset Buffer_list).
NoList == 0

Addr == 1 .. NAddr
\* The HISTORY global: assigned once, in plugin_loaded.
HISTORY == 1

VARIABLES
    max_clips,                 \* HistoryList.max_clips, the same for every object
    heap,                      \* Addr -> [clips, index]: the HistoryList objects
    YANK,                      \* the YANK global: the address of the yank stack
    YANK_MODE,                 \* the YANK_MODE global
    explicit_yank_mode,        \* global read from the settings
    allow_history_duplicates,  \* global read from the settings
    end_yank_mode_on_emptied_stack,  \* sets.get('end_yank_mode_on_emptied_stack')
    yank_disjoin_multiple_cursors,   \* sets.get('yank_disjoin_multiple_cursors')
    clipboard,                 \* the live clipboard (sublime.get_clipboard())
    registers,                 \* HISTORY.registers: a function from keys to texts
    self,                      \* the ClipboardManager command: [List, pop, idx]
    panel,                     \* the quick panel shown by choose_and_paste
    Buffer_list,               \* ClipboardManagerListener.Buffer_list (set by the
                               \* buffer view only, which is not among the steps)
    out,                       \* what the last command did to the host
    import_registers,          \* sets.get('import_registers')
    reg_file,                  \* the file reg_json: [exists, data]
    command_mode,              \* ClipboardManagerListener.command_mode
    call                       \* a call of set_clip in progress, step by step

vars == <<max_clips, heap, YANK, YANK_MODE, explicit_yank_mode, allow_history_duplicates,
          end_yank_mode_on_emptied_stack, yank_disjoin_multiple_cursors,
          clipboard, registers, self, panel, Buffer_list, out,
          import_registers, reg_file, command_mode, call>>

settings == <<explicit_yank_mode, allow_history_duplicates,
              end_yank_mode_on_emptied_stack, yank_disjoin_multiple_cursors>>

\* HistoryList.__init__ / __reset__: no clips, index 0.
EmptyList == [clips |-> <<>>, index |-> 0]

\* No quick panel is open.
NoPanel == [open |-> FALSE, List |-> NoList, yanking |-> FALSE, lines |-> <<>>]

\* Nothing pasted, no message, no exception, no view closed.  pasted is the
\* sequence of texts the native paste command inserted, msgs the set of
\* messages shown (inline_popup and status_message), closed tells that
\* self.view.close() was called.
NoOut == [pasted |-> <<>>, msgs |-> {}, raised |-> FALSE, closed |-> FALSE]

\* No text is on its way to the clipboard.
NoWrite == "<none>"

\* No call of set_clip is in progress.  pc is the position in set_clip, s
\* its argument, same tells that the clipboard read s when it was called,
\* wrote that sublime.set_clipboard has been called, pending is the text
\* handed to the clipboard that a read does not show yet.
NoCall == [pc |-> "idle", s |-> "", same |-> FALSE, wrote |-> FALSE,
           pending |-> NoWrite]

\* The register file does not exist.
NoFile == [exists |-> FALSE, data |-> <<>>]

(***************************************************************************)
(* Strings that the program looks into (register keys, the text entered in *)
(* the input panel) are sequences of one-character strings; a dict is a    *)
(* function, {} the function <<>> of empty domain.                         *)
(***************************************************************************)
numbers == <<"1", "2", "3", "4", "5", "6", "7", "8", "9", "0">>
lettersl == <<"a", "b", "c", "d", "e", "f", "g", "h", "i", "j", "k", "l", "m",
              "n", "o", "p", "q", "r", "s", "t", "u", "v", "w", "x", "y", "z">>
lettersu == <<"A", "B", "C", "D", "E", "F", "G", "H", "I", "J", "K", "L", "M",
              "N", "O", "P", "Q", "R", "S", "T", "U", "V", "W", "X", "Y", "Z">>

\* Python's 'x in s' for strings: x occurs in s as a substring.
str_in(x, s) ==
    \E i \in 0 .. Len(s) - Len(x) : SubSeq(s, i + 1, i + Len(x)) = x

\* Python's 'for n in s' for a string: its characters, each a string.
chars_of(s) == {<<s[i]>> : i \in 1 .. Len(s)}

\* d[k] = v.
dict_set(d, k, v) ==
    [x \in DOMAIN d \cup {k} |-> IF x = k THEN v ELSE d[x]]

\* d.update(e).
dict_update(d, e) ==
    [x \in DOMAIN d \cup DOMAIN e |-> IF x \in DOMAIN e THEN e[x] ELSE d[x]]

\* {n: data[n] for n in data if n in category and data[n]}.
dict_filter(data, category) ==
    [n \in {k \in DOMAIN data : str_in(k, category) /\ data[k] # ""} |-> data[n]]

(***************************************************************************)
(* The part of the state a command works on, as one record w.              *)
(***************************************************************************)
World == [heap |-> heap, YANK |-> YANK, YANK_MODE |-> YANK_MODE,
          clipboard |-> clipboard, self |-> self, panel |-> panel,
          Buffer_list |-> Buffer_list, out |-> NoOut,
          registers |-> registers, command_mode |-> command_mode]

\* inline_popup(msg): the message reaches the host.
inline_popup(w, m) == [w EXCEPT !.out.msgs = @ \cup {m}]

\* sublime.status_message(msg).
status_message(w, m) == [w EXCEPT !.out.msgs = @ \cup {m}]

\* An uncaught exception: the rest of the command does not run.
raise(w) == [w EXCEPT !.out.raised = TRUE]

\* set_clip(s): on return the clipboard reads s.
set_clip(w, s) == [w EXCEPT !.clipboard = s]

\* Python's list.index(x): the position of the first occurrence.
RECURSIVE list_index(_, _, _)
list_index(l, x, i) ==
    IF i > Len(l) THEN None
    ELSE IF l[i] = x THEN i - 1
    ELSE list_index(l, x, i + 1)

\* Python's 'x in list'.
list_in(x, l) == \E i \in 1 .. Len(l) : l[i] = x

\* Python's 'del list[i]' for 0 <= i < len(list).
list_del(l, i) == [j \in 1 .. Len(l) - 1 |-> IF j <= i THEN l[j] ELSE l[j + 1]]

\* Does list[i] raise (IndexError, or TypeError for None)?
subscript_raises(l, i) == i = None \/ i >= Len(l) \/ i < 0 - Len(l)

\* Python's list[i], negative positions counting from the end.
subscript(l, i) == IF i >= 0 THEN l[i + 1] ELSE l[Len(l) + i + 1]


\* Run the next statement F unless an exception is already propagating.
andthen(w, F(_)) == IF w.out.raised THEN w ELSE F(w)

(***************************************************************************)
(* class HistoryList.  a is the address of the object (Python's self).     *)
(***************************************************************************)

\* insert_item as it would be without the 'if not skip:' test: a repeated
\* head is inserted again.
insert_item_noskip(w, a, item, skip) ==
    LET inserted == <<item>> \o w.heap[a].clips
        kept     == IF Len(inserted) > max_clips
                    THEN SubSeq(inserted, 1, Len(inserted) - 1)
                    ELSE inserted
    IN  [w EXCEPT !.heap[a] = [clips |-> kept, index |-> 0]]

\* insert_item as it would be without the eviction of the oldest entry.
insert_item_noevict(w, a, item, skip) ==
    [w EXCEPT !.heap[a] =
         [clips |-> IF skip THEN w.heap[a].clips
                    ELSE <<item>> \o w.heap[a].clips,
          index |-> 0]]

\* insert_item as it would be without 'self.__index = 0'.
insert_item_keepindex(w, a, item, skip) ==
    LET clips    == w.heap[a].clips
        inserted == IF skip THEN clips ELSE <<item>> \o clips
        kept     == IF Len(inserted) > max_clips
                    THEN SubSeq(inserted, 1, Len(inserted) - 1)
                    ELSE inserted
    IN  [w EXCEPT !.heap[a].clips = kept]

\* HistoryList.append.insert_item, with the enclosing append's skip flag.
insert_item(w, a, item, skip) ==
    LET clips    == w.heap[a].clips
        inserted == IF skip THEN clips ELSE <<item>> \o clips
        kept     == IF Len(inserted) > max_clips
                    THEN SubSeq(inserted, 1, Len(inserted) - 1)
                    ELSE inserted
    IN  [w EXCEPT !.heap[a] = [clips |-> kept, index |-> 0]]

\* The loop 'for sel in v.sel(): substr = v.substr(sel); if substr:
\* insert_item(substr)' of append, from selection i on.
RECURSIVE insert_selections(_, _, _, _)
insert_selections(w, a, sel, i) ==
    IF i > Len(sel) THEN w
    ELSE insert_selections(
             IF sel[i] # "" THEN insert_item(w, a, sel[i], FALSE) ELSE w,
             a, sel, i + 1)

\* HistoryList.append(item); sel holds the text of each selection of the
\* active view (v.substr(s) for s in v.sel()).
HistoryList_append(w, a, item, sel) ==
    LET clips == w.heap[a].clips IN
    IF w.YANK_MODE
    THEN IF clips # <<>> /\ item = clips[1] /\ Len(sel) = 1
         THEN insert_item(w, a, item, TRUE)
         ELSE IF yank_disjoin_multiple_cursors
         THEN insert_selections(w, a, sel, 1)
         ELSE insert_item(w, a, item, FALSE)
    ELSE IF clips # <<>>
    THEN IF item = clips[1]
         THEN insert_item(w, a, item, TRUE)
         ELSE IF ~allow_history_duplicates /\ list_in(item, clips)
         THEN insert_item(
                  [w EXCEPT !.heap[a].clips =
                       list_del(clips, list_index(clips, item, 1))],
                  a, item, FALSE)
         ELSE insert_item(w, a, item, FALSE)
    ELSE insert_item(w, a, item, FALSE)

\* current() as it would be without its 'if len(self.clips)' test: the
\* subscript is evaluated on an empty list as well.
current_raises_unguarded(L) == subscript_raises(L.clips, L.index)

\* Does HistoryList.current() raise?  (clips[index] on a non-empty list.)
current_raises(L) == Len(L.clips) > 0 /\ subscript_raises(L.clips, L.index)

\* HistoryList.current(): the item at the index, None on an empty list.
\* Payloads are strings, so None is returned here as a value outside Texts.
NoClip == "<None>"
current(L) == IF Len(L.clips) > 0 THEN subscript(L.clips, L.index) ELSE NoClip

\* HistoryList.current_index().
current_index(L) == IF Len(L.clips) > 0 THEN L.index ELSE None

\* HistoryList.status(): mirror the current item to the live clipboard.
status(w, a) ==
    LET L == w.heap[a] IN
    IF current_raises(L) THEN raise(w)
    ELSE IF current(L) # NoClip /\ current(L) # ""
    THEN set_clip(w, current(L))
    ELSE inline_popup(w, "Nothing in history")

\* HistoryList.at(idx).
HistoryList_at(w, a, idx) ==
    LET clips == w.heap[a].clips
        i     == IF idx < Len(clips) THEN idx
                 ELSE IF Len(clips) > 0 THEN 0 ELSE None
    IN  status([w EXCEPT !.heap[a].index = i], a)

\* HistoryList.next() as it would be without the 'if self.__index > 0' test.
HistoryList_next_unguarded(w, a) ==
    LET L == w.heap[a] IN
    IF L.index = None THEN raise(w)
    ELSE status([w EXCEPT !.heap[a].index = @ - 1], a)

\* HistoryList.next(): 'None > 0' is a TypeError.
HistoryList_next(w, a) ==
    LET L == w.heap[a] IN
    IF L.index = None THEN raise(w)
    ELSE IF L.index > 0
    THEN status([w EXCEPT !.heap[a].index = @ - 1], a)
    ELSE status(w, a)

\* HistoryList.previous().
HistoryList_previous(w, a) ==
    LET L == w.heap[a] IN
    IF L.index = None THEN raise(w)
    ELSE IF L.index < Len(L.clips) - 1
    THEN status([w EXCEPT !.heap[a].index = @ + 1], a)
    ELSE status(w, a)

\* HistoryList.first(): the oldest item.
HistoryList_first(w, a) ==
    status([w EXCEPT !.heap[a].index = Len(w.heap[a].clips) - 1], a)

\* HistoryList.last(): the newest item.
HistoryList_last(w, a) == status([w EXCEPT !.heap[a].index = 0], a)

\* The objects something other than the YANK global refers to.
held(w) == ({HISTORY, w.Buffer_list}
            \cup (IF w.panel.open THEN {w.panel.List, w.self.List} ELSE {}))
           \ {NoList}

\* The objects the program can still reach.
roots(w) == held(w) \cup {w.YANK}

\* HistoryList(): the address of a new object, one that nothing but the
\* global being replaced refers to.
new_HistoryList(w) ==
    CHOOSE a \in Addr \ held(w) : \A b \in Addr \ held(w) : a <= b

\* ClipboardManagerListener.deactivate_command_mode.
deactivate_command_mode(w) == [w EXCEPT !.command_mode = FALSE]

\* The head of on_text_command, for a command whose name does not hold
\* 'clipboard_manager': command mode ends.
text_command(w) == IF w.command_mode THEN deactivate_command_mode(w) ELSE w

\* view.run_command('paste') (or 'paste_and_indent'): on_text_command sees
\* the native command, which then inserts the clipboard's text.
native_paste(w) ==
    [text_command(w) EXCEPT !.out.pasted = Append(@, w.clipboard)]

\* append_clipboard as it would be without the early return of explicit
\* yank mode: the clip goes to HISTORY as well.
append_clipboard_both(w, sel) ==
    LET clip == w.clipboard IN
    IF w.YANK_MODE
    THEN HistoryList_append(HistoryList_append(w, w.YANK, clip, sel),
                            HISTORY, clip, sel)
    ELSE HistoryList_append(w, HISTORY, clip, sel)

\* append_clipboard(), sel as in HistoryList_append.
append_clipboard(w, sel) ==
    LET clip == w.clipboard IN
    IF w.YANK_MODE
    THEN LET w1 == HistoryList_append(w, w.YANK, clip, sel) IN
         IF explicit_yank_mode THEN w1
         ELSE HistoryList_append(w1, HISTORY, clip, sel)
    ELSE HistoryList_append(w, HISTORY, clip, sel)

\* ClipboardManagerListener.on_text_command for 'copy' or 'cut': command
\* mode ends, the native command runs (the nested on_text_command only
\* takes just_run back to False) and leaves clip on the clipboard, then
\* append_clipboard().
copy_cut(w, clip, sel) ==
    append_clipboard([text_command(w) EXCEPT !.clipboard = clip], sel)

\* ClipboardManagerYankMode.run as it would be if leaving explicit yank mode
\* moved the newest yank to HISTORY before clearing the yank stack.
ClipboardManagerYankMode_run_merge(w) ==
    LET w1 == status_message([w EXCEPT !.YANK_MODE = ~ @],
                             IF w.YANK_MODE THEN "  YANK MODE:  Off"
                             ELSE "  YANK MODE:  On")
    IN
    IF ~ w1.YANK_MODE /\ explicit_yank_mode
    THEN LET a  == new_HistoryList(w1)
             w2 == IF w.heap[w.YANK].clips # <<>>
                   THEN insert_item(w1, HISTORY, w.heap[w.YANK].clips[1], FALSE)
                   ELSE w1
         IN  [w2 EXCEPT !.YANK = a, !.heap[a] = EmptyList]
    ELSE w1

\* ClipboardManagerYankMode.run.
ClipboardManagerYankMode_run(w) ==
    LET w1 == status_message([w EXCEPT !.YANK_MODE = ~ @],
                             IF w.YANK_MODE THEN "  YANK MODE:  Off"
                             ELSE "  YANK MODE:  On")
    IN
    IF ~ w1.YANK_MODE /\ explicit_yank_mode
    THEN LET a == new_HistoryList(w1) IN
         [w1 EXCEPT !.YANK = a, !.heap[a] = EmptyList]
    ELSE w1

(***************************************************************************)
(* class ClipboardManager.  self.List, self.pop and self.idx are w.self.   *)
(***************************************************************************)

\* The message of paste for an empty list.
paste_msg(yanking) ==
    IF yanking THEN "Nothing in yank stack" ELSE "Nothing in history"

\* The 'if self.pop:' block of paste: the first entry equal to the pasted
\* clip is deleted (ix = List.clips.index(clip); del List.clips[ix]).
paste_pop(w, a, clip, yanking) ==
    LET clips == w.heap[a].clips
        w1    == [w EXCEPT !.heap[a].clips =
                      list_del(clips, list_index(clips, clip, 1))]
    IN  IF Len(w1.heap[a].clips) = 0
        THEN inline_popup(w1, paste_msg(yanking))
        ELSE w1

\* paste as it would be without the 'if not len(List.clips)' test: the
\* value of current() on an empty list, None, goes to the clipboard.
ClipboardManager_paste_unguarded(w, yanking) ==
    LET a == w.self.List IN
    IF a = NoList THEN raise(w)
    ELSE LET L == w.heap[a] IN
         IF current_raises(L) THEN raise(w)
         ELSE LET clip == current(L)
                  w1   == set_clip(w, clip)
                  w2   == native_paste(w1)
              IN  IF w.self.pop /\ L.clips # <<>>
                  THEN paste_pop(w2, a, clip, yanking) ELSE w2

\* ClipboardManager.paste(yanking), on self.List.
ClipboardManager_paste(w, yanking) ==
    LET a == w.self.List IN
    IF a = NoList THEN raise(w)
    ELSE LET L == w.heap[a] IN
         IF Len(L.clips) = 0 THEN inline_popup(w, paste_msg(yanking))
         ELSE IF current_raises(L) THEN raise(w)
         ELSE LET clip == current(L)
                  w1   == set_clip(w, clip)
                  w2   == native_paste(w1)
              IN  IF w.self.pop THEN paste_pop(w2, a, clip, yanking) ELSE w2

\* ClipboardManager.choose_and_paste(yanking): show the quick panel; its
\* on_done closure keeps List and yanking, lines are the labels shown.
choose_and_paste(w, yanking) ==
    LET a == w.self.List IN
    IF a = NoList THEN raise(w)
    ELSE IF Len(w.heap[a].clips) = 0
    THEN inline_popup(w, "Nothing in history")
    ELSE [w EXCEPT !.panel = [open |-> TRUE, List |-> a, yanking |-> yanking,
                              lines |-> w.heap[a].clips]]

\* choose_and_paste.on_done(idx), the callback of the quick panel.
on_done(w, idx) ==
    LET a  == w.panel.List
        y  == w.panel.yanking
        w0 == [w EXCEPT !.panel = NoPanel]
    IN  IF idx >= 0
        THEN andthen(HistoryList_at([w0 EXCEPT !.self.idx = idx], a, idx),
                     LAMBDA x : ClipboardManager_paste(x, y))
        ELSE HistoryList_at(w0, a, 0)

\* ClipboardManager.choice_panel(index), the on_highlight callback.
choice_panel(w, index) ==
    IF w.self.List = NoList THEN raise(w)
    ELSE HistoryList_at(w, w.self.List, index)

\* The branch of yank that resumes from the chooser's index.
yank_resume(w) ==
    LET w1 == HistoryList_at(w, w.YANK, w.self.idx - 1)
        i  == w.self.idx - 1
    IN  andthen(w1, LAMBDA x :
            ClipboardManager_paste(
                [x EXCEPT !.self.idx = IF i < 0 THEN None ELSE i], TRUE))

\* The branch of yank that pops the bottom-most entry.
yank_bottom(w) ==
    andthen(HistoryList_first(w, w.YANK),
            LAMBDA x : ClipboardManager_paste(x, TRUE))

\* The end of yank: leave yank mode once the stack is emptied.
yank_end(w) ==
    IF /\ w.YANK_MODE
       /\ Len(w.heap[w.YANK].clips) = 0
       /\ explicit_yank_mode
       /\ end_yank_mode_on_emptied_stack
    THEN ClipboardManagerYankMode_run(w)
    ELSE w

\* ClipboardManager.yank(choice).
ClipboardManager_yank(w, choice) ==
    IF Len(w.heap[w.YANK].clips) > 0
    THEN LET w1 == [w EXCEPT !.self.List = w.YANK] IN
         andthen(IF choice THEN choose_and_paste(w1, TRUE)
                 ELSE IF /\ w1.self.idx # None
                         /\ Len(w1.heap[w1.YANK].clips) - 1 >= w1.self.idx
                 THEN yank_resume(w1)
                 ELSE yank_bottom(w1),
                 yank_end)
    ELSE inline_popup(w, "Nothing to yank")

\* ClipboardManager.clear_yank_list.
clear_yank_list(w) ==
    LET a == new_HistoryList(w) IN
    inline_popup([w EXCEPT !.YANK = a, !.heap[a] = EmptyList],
                 "Yank history cleared")

\* clear_history as it would be if it replaced HISTORY by a new object, as
\* clear_yank_list does with YANK: the registers of the old one are lost.
clear_history_renewed(w) ==
    inline_popup([w EXCEPT !.heap[HISTORY] = EmptyList, !.registers = <<>>],
                 "Clipboard history cleared")

\* ClipboardManager.clear_history: HISTORY.__reset__().
clear_history(w) ==
    inline_popup([w EXCEPT !.heap[HISTORY] = EmptyList],
                 "Clipboard history cleared")

\* ClipboardManager.next.
ClipboardManager_next(w) == HistoryList_next(w, HISTORY)

\* ClipboardManager.previous.
ClipboardManager_previous(w) == HistoryList_previous(w, HISTORY)

\* The commands of ClipboardManager.run that take no argument.
Commands == {"paste", "clear_yank_list", "clear_history", "next", "previous",
             "paste_and_next", "paste_and_previous", "next_and_paste",
             "previous_and_paste", "choose_and_paste", "paste_and_display"}

\* args[arg]() of ClipboardManager.run.
dispatch(w, cmd) ==
    CASE cmd = "paste" -> ClipboardManager_paste(w, FALSE)
      [] cmd = "clear_yank_list" -> clear_yank_list(w)
      [] cmd = "clear_history" -> clear_history(w)
      [] cmd = "next" -> ClipboardManager_next(w)
      [] cmd = "previous" -> ClipboardManager_previous(w)
      [] cmd = "paste_and_next" ->
            andthen(ClipboardManager_paste(w, FALSE), ClipboardManager_next)
      [] cmd = "paste_and_previous" ->
            andthen(ClipboardManager_paste(w, FALSE), ClipboardManager_previous)
      [] cmd = "next_and_paste" ->
            andthen(ClipboardManager_next(w),
                    LAMBDA x : ClipboardManager_paste(x, FALSE))
      [] cmd = "previous_and_paste" ->
            andthen(ClipboardManager_previous(w),
                    LAMBDA x : ClipboardManager_paste(x, FALSE))
      [] cmd = "choose_and_paste" -> choose_and_paste(w, FALSE)
      [] cmd = "paste_and_display" -> ClipboardManager_paste(w, FALSE)

\* ClipboardManager.run(edit, **kwargs) with kwargs = {cmd} and, when pop
\* is set, 'pop'.
run(w, pop, cmd) ==
    dispatch([w EXCEPT !.self.pop = pop, !.self.List = HISTORY], cmd)

\* ClipboardManager.run with 'yank' in kwargs; choice is 'choose' in kwargs.
run_yank(w, choice) ==
    ClipboardManager_yank([w EXCEPT !.self.pop = TRUE], choice)

(***************************************************************************)
(* The registers: HistoryList.register / reset_register on HISTORY, and    *)
(* class ClipboardManagerRegister.  The key is left out of the messages.   *)
(***************************************************************************)

\* HistoryList.register(register, st) with a text st: a non-empty st is
\* stored; an empty one is falsy, so that the call reads the register
\* instead (KeyError when it has no entry) and stores nothing.
HistoryList_register(w, register, st) ==
    IF st # ""
    THEN inline_popup([w EXCEPT !.registers = dict_set(@, register, st)],
                      "Set Clipboard Register")
    ELSE IF register \in DOMAIN w.registers THEN w ELSE raise(w)

\* HistoryList.register(register), st left at None: the stored text.
register_get(w, register) == w.registers[register]

\* reset_register as it would be if a category were reset by starting from
\* an empty store.
reset_register_afresh(w, what) ==
    LET emptied(category) == [n \in chars_of(category) |-> ""]
    IN  CASE what = "numbers"  -> [w EXCEPT !.registers = emptied(numbers)]
          [] what = "lettersl" -> [w EXCEPT !.registers = emptied(lettersl)]
          [] what = "lettersu" -> [w EXCEPT !.registers = emptied(lettersu)]
          [] OTHER             -> [w EXCEPT !.registers = <<>>]

\* HistoryList.reset_register(what).
reset_register(w, what) ==
    LET emptied(category) ==
            dict_update(w.registers, [n \in chars_of(category) |-> ""])
    IN  CASE what = "numbers"  -> [w EXCEPT !.registers = emptied(numbers)]
          [] what = "lettersl" -> [w EXCEPT !.registers = emptied(lettersl)]
          [] what = "lettersu" -> [w EXCEPT !.registers = emptied(lettersu)]
          [] OTHER             -> [w EXCEPT !.registers = <<>>]

\* The argument reset's on_done passes for the menu entry ix.
reset_what(ix) ==
    CASE ix = 0 -> "all"
      [] ix = 1 -> "numbers"
      [] ix = 2 -> "lettersl"
      [] ix = 3 -> "lettersu"

\* ClipboardManagerRegister.reset with its on_done(ix); a cancelled menu
\* (ix = -1) does nothing.
ClipboardManagerRegister_reset(w, ix) ==
    IF ix \in 0 .. 3 THEN reset_register(w, reset_what(ix)) ELSE w

\* ClipboardManagerRegister.import_from with its on_done(ix): the file is
\* read when the menu is shown (an exception when it does not exist).
import_from(w, ix) ==
    LET w1    == IF ~ import_registers
                 THEN status_message(w,
                          "   Attention: Import from file is currently disabled.")
                 ELSE w
        data  == reg_file.data
        nums  == dict_filter(data, numbers)
        letsL == dict_filter(data, lettersl)
        letsU == dict_filter(data, lettersu)
    IN  IF ~ reg_file.exists THEN raise(w1)
        ELSE CASE ix = 0 ->
                    [w1 EXCEPT !.registers =
                         dict_update(dict_update(dict_update(@, nums), letsL),
                                     letsU)]
               [] ix = 1 -> [w1 EXCEPT !.registers = dict_update(@, nums)]
               [] ix = 2 -> [w1 EXCEPT !.registers = dict_update(@, letsL)]
               [] ix = 3 -> [w1 EXCEPT !.registers = dict_update(@, letsU)]
               [] OTHER  -> w1

\* ClipboardManagerRegister.copy(s): the native copy (seen by the listener)
\* leaves clip on the clipboard, which is then registered.
ClipboardManagerRegister_copy(w, s, clip, sel) ==
    andthen(HistoryList_register(copy_cut(w, clip, sel), s, clip),
            LAMBDA x : status_message(x, "   Registered in "))

\* ClipboardManagerRegister.paste as it would be if it read the register
\* with a default ('' for a key without entry) instead of testing the key.
ClipboardManagerRegister_paste_default(w, s) ==
    native_paste(set_clip(status_message(w, "   Pasted register "),
                          IF s \in DOMAIN w.registers
                          THEN register_get(w, s) ELSE ""))

\* ClipboardManagerRegister.paste(s).
ClipboardManagerRegister_paste(w, s) ==
    IF s \in DOMAIN w.registers
    THEN native_paste(set_clip(status_message(w, "   Pasted register "),
                               register_get(w, s)))
    ELSE status_message(w, "   Not a valid register")

\* ClipboardManagerRegister.set_clip(s); the view is closed in either case.
ClipboardManagerRegister_set_clip(w, s) ==
    LET w1 == IF s \in DOMAIN w.registers
              THEN set_clip(status_message(w, "   Clipboard set to register "),
                            register_get(w, s))
              ELSE status_message(w, "   Not a valid register")
    IN  [w1 EXCEPT !.out.closed = TRUE]

\* chars of on_change: the characters accepted as a key.
chars == numbers \o lettersl \o lettersu

\* The modes of clipboard_manager_register that ask for a key.
Modes == {"copy", "paste", "set"}

\* ClipboardManagerRegister.run(mode) followed by on_change(s) of the input
\* panel it shows: s is the text entered, of which the first character is
\* the key; clip and sel are what a native copy finds.
on_change(w, mode, s, clip, sel) ==
    IF s = <<>> THEN w
    ELSE LET key == <<s[1]>> IN
         IF ~ str_in(key, chars)
         THEN status_message(w, "   Not a valid key.")
         ELSE CASE mode = "copy" -> ClipboardManagerRegister_copy(w, key, clip, sel)
                [] mode = "paste" -> ClipboardManagerRegister_paste(w, key)
                [] mode = "set" -> ClipboardManagerRegister_set_clip(w, key)

(***************************************************************************)
(* The state machine.                                                      *)
(***************************************************************************)

\* The state after plugin_loaded(): HISTORY holds the clipboard's content
\* (appended while YANK_MODE is still False), YANK is empty, and yank mode
\* is on exactly when explicit yank mode is not configured.  With
\* import_registers the register file exists (plugin_loaded has created it,
\* holding {}, if it did not) and HISTORY.registers is what it holds.
Loaded ==
    /\ clipboard \in StartTexts
    /\ YANK = 2
    /\ heap = [a \in Addr |->
                  IF a = HISTORY THEN [clips |-> <<clipboard>>, index |-> 0]
                  ELSE EmptyList]
    /\ YANK_MODE = ~ explicit_yank_mode
    /\ import_registers => reg_file.exists
    /\ registers = IF import_registers THEN reg_file.data ELSE <<>>
    /\ command_mode = FALSE
    /\ call = NoCall
    /\ self = [List |-> NoList, pop |-> FALSE, idx |-> None]
    /\ panel = NoPanel
    /\ Buffer_list = NoList
    /\ out = NoOut

\* Any combination of the settings the stacks depend on; no register file.
Init ==
    /\ import_registers = FALSE
    /\ reg_file = NoFile
    /\ max_clips = MaxClips
    /\ explicit_yank_mode \in BOOLEAN
    /\ allow_history_duplicates \in BOOLEAN
    /\ end_yank_mode_on_emptied_stack \in BOOLEAN
    /\ yank_disjoin_multiple_cursors \in BOOLEAN
    /\ Loaded

\* The settings at their defaults (every sets.get(..., False) of the source).
InitDefault ==
    /\ import_registers = FALSE
    /\ reg_file = NoFile
    /\ max_clips = MaxClips + 1
    /\ explicit_yank_mode = FALSE
    /\ allow_history_duplicates = FALSE
    /\ end_yank_mode_on_emptied_stack = FALSE
    /\ yank_disjoin_multiple_cursors = FALSE
    /\ Loaded

\* The command is over: w becomes the state; objects nothing refers to any
\* more are dropped from the heap.  self.List and self.pop are read by
\* paste and choice_panel only: run assigns both before it calls paste, so
\* between commands their values matter only to the callbacks of an open
\* quick panel, and they are not kept otherwise.
Commit(w) ==
    /\ heap' = [a \in Addr |-> IF a \in roots(w) THEN w.heap[a] ELSE EmptyList]
    /\ YANK' = w.YANK
    /\ YANK_MODE' = w.YANK_MODE
    /\ clipboard' = w.clipboard
    /\ self' = IF w.panel.open THEN w.self
               ELSE [w.self EXCEPT !.List = NoList, !.pop = FALSE]
    /\ panel' = w.panel
    /\ Buffer_list' = w.Buffer_list
    /\ out' = w.out
    /\ registers' = w.registers
    /\ command_mode' = w.command_mode
    /\ UNCHANGED <<max_clips, settings, import_registers, reg_file, call>>

\* The texts of the selections of the view when append runs, for a native
\* copy/cut that left clip on the clipboard: one selection holds clip or is
\* empty (a cut, or a copy of nothing); with several selections the clipboard
\* holds their join, which the payloads stand for.
Selections(clip) ==
    {sel \in UNION {[1 .. n -> SelTexts] : n \in 1 .. MaxSel} :
        Len(sel) = 1 => sel[1] \in {clip, ""}}

\* A copy or cut in the view: clip is what the native command leaves on the
\* clipboard.
on_text_command(clip, sel) == Commit(copy_cut(World, clip, sel))

CopyCut == \E clip \in Texts : \E sel \in Selections(clip) :
               on_text_command(clip, sel)

\* A key binding runs clipboard_manager with one command, with or without pop.
RunCmd(pop, cmd) ==
    /\ cmd = "choose_and_paste" => ~ panel.open
    /\ Commit(run(World, pop, cmd))

Command == \E pop \in BOOLEAN : \E cmd \in Commands : RunCmd(pop, cmd)

\* A key binding runs clipboard_manager with yank, with or without choose.
RunYank(choice) ==
    /\ choice => ~ panel.open
    /\ Commit(run_yank(World, choice))

Yank == \E choice \in BOOLEAN : RunYank(choice)

\* The user picks entry idx of the quick panel, or cancels it (idx = -1).
PanelDone(idx) ==
    /\ panel.open
    /\ idx \in -1 .. Len(panel.lines) - 1
    /\ Commit(on_done(World, idx))

Done == \E idx \in -1 .. max_clips : PanelDone(idx)

\* The user moves the highlight of the quick panel to entry index.
PanelHighlight(index) ==
    /\ panel.open
    /\ index \in 0 .. Len(panel.lines) - 1
    /\ Commit(choice_panel(World, index))

Highlight == \E index \in 0 .. max_clips : PanelHighlight(index)

\* The clipboard_manager_yank_mode command.
YankModeToggle == Commit(ClipboardManagerYankMode_run(World))

\* The user answers an open quick panel before doing anything else.
Next ==
    \/ ~ panel.open /\ CopyCut
    \/ ~ panel.open /\ Command
    \/ ~ panel.open /\ Yank
    \/ ~ panel.open /\ YankModeToggle
    \/ Done
    \/ Highlight

Spec == Init /\ [][Next]_vars

SpecDefault == InitDefault /\ [][Next]_vars

(***************************************************************************)
(* class HistoryList on its own: the methods called directly on one object *)
(* (the one at HISTORY), under any setting and with yank mode on or off.   *)
(***************************************************************************)

\* A new HistoryList object; YANK_MODE is a global the object reads.
InitList ==
    /\ max_clips = MaxClips
    /\ explicit_yank_mode \in BOOLEAN
    /\ allow_history_duplicates \in BOOLEAN
    /\ end_yank_mode_on_emptied_stack = FALSE
    /\ yank_disjoin_multiple_cursors \in BOOLEAN
    /\ clipboard \in StartTexts
    /\ YANK = 2
    /\ heap = [a \in Addr |-> EmptyList]
    /\ YANK_MODE \in BOOLEAN
    /\ import_registers = FALSE
    /\ reg_file = NoFile
    /\ registers = <<>>
    /\ command_mode = FALSE
    /\ call = NoCall
    /\ self = [List |-> NoList, pop |-> FALSE, idx |-> None]
    /\ panel = NoPanel
    /\ Buffer_list = NoList
    /\ out = NoOut

\* The arguments at() is called with: a position of the quick panel or of
\* the buffer view's prompt, or self.idx - 1 of yank (-1 after a pick of 0).
AtArgs == -1 .. MaxClips

\* HISTORY.append(item) with the selections sel in the view.
ListAppend == \E item \in Texts : \E sel \in Selections(item) :
                  Commit(HistoryList_append(World, HISTORY, item, sel))

ListNext == Commit(HistoryList_next(World, HISTORY))

ListPrevious == Commit(HistoryList_previous(World, HISTORY))

ListFirst == Commit(HistoryList_first(World, HISTORY))

ListLast == Commit(HistoryList_last(World, HISTORY))

ListAt == \E idx \in AtArgs : Commit(HistoryList_at(World, HISTORY, idx))

\* HISTORY.__reset__().
ListReset == Commit([World EXCEPT !.heap[HISTORY] = EmptyList])

NextList ==
    \/ ListAppend
    \/ ListNext
    \/ ListPrevious
    \/ ListFirst
    \/ ListLast
    \/ ListAt
    \/ ListReset

SpecList == InitList /\ [][NextList]_vars

(***************************************************************************)
(* The register commands, with explicit yank mode configured and yank mode *)
(* off: a native copy goes to HISTORY alone.                               *)
(***************************************************************************)

\* Contents of the register file: it is the user's to edit, so keys need
\* not be register keys ("12", "!", the empty key) nor values non-empty.
File1 == (<<"1">> :> "b") @@ (<<"1", "2">> :> "a")
File2 == (<<"Z">> :> "") @@ (<<"!">> :> "b") @@ (<<>> :> "a")
RegFiles == {[exists |-> TRUE, data |-> d] : d \in {<<>>, File1, File2}}

\* Texts entered in the input panel of clipboard_manager_register.
Entered == {<<>>, <<"1">>, <<"Z">>, <<"!">>, <<"Z", "!">>}

\* The entries of the menus of reset and import_from; -1 cancels the menu.
MenuEntries == -1 .. 3

InitRegister ==
    /\ import_registers \in BOOLEAN
    /\ reg_file \in RegFiles \cup {NoFile}
    /\ max_clips = MaxClips
    /\ explicit_yank_mode = TRUE
    /\ allow_history_duplicates = FALSE
    /\ end_yank_mode_on_emptied_stack = FALSE
    /\ yank_disjoin_multiple_cursors = FALSE
    /\ Loaded

\* clipboard_manager_register with mode 'copy', then a text entered in its
\* input panel.  The native copy leaves a text on the clipboard, or the
\* clipboard as it is when there is nothing to copy.  The view has one
\* selection.
RegisterCopy ==
    \E s \in Entered : \E clip \in Texts \cup {clipboard} :
        Commit(on_change(World, "copy", s, clip, <<clip>>))

\* The same with mode 'paste' (no native copy is made).
RegisterPaste ==
    \E s \in Entered : Commit(on_change(World, "paste", s, clipboard, <<>>))

\* The same with mode 'set'.
RegisterSetClip ==
    \E s \in Entered : Commit(on_change(World, "set", s, clipboard, <<>>))

\* clipboard_manager_register with mode 'options', entry Reset, then an
\* entry of its menu.
RegisterReset ==
    \E ix \in MenuEntries : Commit(ClipboardManagerRegister_reset(World, ix))

\* The same with entry Import.
RegisterImport == \E ix \in MenuEntries : Commit(import_from(World, ix))

NextRegister ==
    \/ RegisterCopy
    \/ RegisterPaste
    \/ RegisterSetClip
    \/ RegisterReset
    \/ RegisterImport

SpecRegister == InitRegister /\ [][NextRegister]_vars

(***************************************************************************)
(* The two clear commands, among copy events, register copies, the moves   *)
(* of the index and the yank-mode toggle, with explicit yank mode.         *)
(***************************************************************************)
InitClear ==
    /\ import_registers = FALSE
    /\ reg_file = NoFile
    /\ max_clips = MaxClips
    /\ explicit_yank_mode = TRUE
    /\ allow_history_duplicates = FALSE
    /\ end_yank_mode_on_emptied_stack = FALSE
    /\ yank_disjoin_multiple_cursors = FALSE
    /\ Loaded

\* clipboard_manager with next or previous.
Navigate == \E cmd \in {"next", "previous"} : Commit(run(World, FALSE, cmd))

ClearHistory == Commit(run(World, FALSE, "clear_history"))

ClearYank == Commit(run(World, FALSE, "clear_yank_list"))

NextClear ==
    \/ CopyCut
    \/ RegisterCopy
    \/ YankModeToggle
    \/ Navigate
    \/ ClearHistory
    \/ ClearYank

SpecClear == InitClear /\ [][NextClear]_vars

(***************************************************************************)
(* Command mode, among all the steps of Next, with explicit yank mode.     *)
(***************************************************************************)

\* ClipboardManagerListener.on_query_context(view, key, operator, operand):
\* equal tells that operator is OP_EQUAL.  Only its effect on command mode
\* is kept, not the value it returns to the key binding.
on_query_context(w, key, equal, operand) ==
    IF key = "clip_man" /\ equal /\ operand = "yank_mode" THEN w
    ELSE IF w.command_mode
    THEN IF key = "clip_man" /\ equal /\ operand = "non_stop" THEN w
         ELSE deactivate_command_mode(w)
    ELSE w

\* ClipboardManagerCommandMode.run: the await-command action.
ClipboardManagerCommandMode_run(w) == [w EXCEPT !.command_mode = TRUE]

AwaitCommand == Commit(ClipboardManagerCommandMode_run(World))

\* A text command that is neither copy, cut nor one of clipboard manager.
OtherTextCommand == Commit(text_command(World))

\* A key binding with a context is looked up.
QueryContext ==
    \E key \in {"clip_man", "other"} : \E equal \in BOOLEAN :
    \E operand \in {"yank_mode", "non_stop", "command_mode"} :
        Commit(on_query_context(World, key, equal, operand))

NextCommand ==
    \/ Next
    \/ ~ panel.open /\ AwaitCommand
    \/ ~ panel.open /\ OtherTextCommand
    \/ ~ panel.open /\ QueryContext

SpecCommand == InitClear /\ [][NextCommand]_vars

(***************************************************************************)
(* The index operations of HISTORY after a start with any clipboard, the   *)
(* empty one included.                                                     *)
(***************************************************************************)

\* plugin_loaded with the clipboard holding any text or nothing:
\* HISTORY.append(get_clip()) stores what get_clip() returns.
InitStatus ==
    /\ import_registers = FALSE
    /\ reg_file = NoFile
    /\ max_clips = MaxClips + 1
    /\ explicit_yank_mode \in BOOLEAN
    /\ allow_history_duplicates \in BOOLEAN
    /\ end_yank_mode_on_emptied_stack = FALSE
    /\ yank_disjoin_multiple_cursors = FALSE
    /\ clipboard \in SelTexts
    /\ YANK = 2
    /\ heap = [a \in Addr |->
                  IF a = HISTORY THEN [clips |-> <<clipboard>>, index |-> 0]
                  ELSE EmptyList]
    /\ YANK_MODE = ~ explicit_yank_mode
    /\ registers = <<>>
    /\ command_mode = FALSE
    /\ call = NoCall
    /\ self = [List |-> NoList, pop |-> FALSE, idx |-> None]
    /\ panel = NoPanel
    /\ Buffer_list = NoList
    /\ out = NoOut

NextStatus ==
    \/ CopyCut
    \/ ListNext
    \/ ListPrevious
    \/ ListFirst
    \/ ListLast
    \/ ListAt

SpecStatus == InitStatus /\ [][NextStatus]_vars

(***************************************************************************)
(* The quick panel left open while other events arrive, with explicit yank *)
(* mode: show_quick_panel returns at once and calls on_done later.         *)
(***************************************************************************)

\* A key binding runs clipboard_manager with choose_and_paste, or with yank
\* and choose.
Choose ==
    \/ \E pop \in BOOLEAN : RunCmd(pop, "choose_and_paste")
    \/ RunYank(TRUE)

NextChooser ==
    \/ CopyCut
    \/ Choose
    \/ ClearHistory
    \/ ClearYank
    \/ YankModeToggle
    \/ Done
    \/ Highlight

SpecChooser == InitClear /\ [][NextChooser]_vars

(***************************************************************************)
(* The settings changed while the plugin runs.                             *)
(***************************************************************************)

\* on_settings_change(): the globals take the values e and d that the
\* settings file now gives explicit_yank_mode and allow_history_duplicates.
on_settings_change(e, d) ==
    /\ explicit_yank_mode' = e
    /\ allow_history_duplicates' = d
    /\ out' = NoOut
    /\ UNCHANGED <<max_clips, end_yank_mode_on_emptied_stack,
                   yank_disjoin_multiple_cursors, heap, YANK, YANK_MODE,
                   clipboard, registers, self, panel, Buffer_list,
                   import_registers, reg_file, command_mode, call>>

SettingsChange == \E e \in BOOLEAN : \E d \in BOOLEAN : on_settings_change(e, d)

PlainYank == RunYank(FALSE)

NextSettings ==
    \/ CopyCut
    \/ YankModeToggle
    \/ PlainYank
    \/ ClearYank
    \/ SettingsChange

SpecSettings == Init /\ [][NextSettings]_vars

(***************************************************************************)
(* set_clip step by step, on a clipboard that may show a text written to   *)
(* it only some time after sublime.set_clipboard returned.                 *)
(***************************************************************************)

\* 'while s != get_clip()' without the loop: 'if s != get_clip()', the
\* text is written once at most.
set_clip_test_once(c, clip) ==
    IF c.s # clip /\ ~ c.wrote THEN [c EXCEPT !.pc = "write"]
    ELSE [c EXCEPT !.pc = "returned"]

\* The test 'while s != get_clip()' of set_clip, get_clip() returning clip:
\* on to the body, or out of the loop and of set_clip.
set_clip_test(c, clip) ==
    IF c.s # clip THEN [c EXCEPT !.pc = "write"]
    ELSE [c EXCEPT !.pc = "returned"]

\* The body 'sublime.set_clipboard(s)' of the loop, then back to the test.
set_clip_body(c) ==
    [c EXCEPT !.pc = "test", !.wrote = TRUE, !.pending = c.s]

\* What set_clip does not touch.
others == <<max_clips, heap, YANK, YANK_MODE, settings, registers, self, panel,
            Buffer_list, out, import_registers, reg_file, command_mode>>

\* set_clip(s) is called.
SetClipCall ==
    /\ call.pc = "idle"
    /\ \E s \in SelTexts :
           call' = [NoCall EXCEPT !.pc = "test", !.s = s,
                                  !.same = (clipboard = s),
                                  !.pending = call.pending]
    /\ UNCHANGED <<clipboard, others>>

SetClipTest ==
    /\ call.pc = "test"
    /\ call' = set_clip_test(call, clipboard)
    /\ UNCHANGED <<clipboard, others>>

\* sublime.set_clipboard(s): a read shows s at once, or only later.
SetClipWrite ==
    /\ call.pc = "write"
    /\ \/ /\ call' = set_clip_body(call)
          /\ UNCHANGED clipboard
       \/ /\ call' = [set_clip_body(call) EXCEPT !.pending = NoWrite]
          /\ clipboard' = call.s
    /\ UNCHANGED others

\* set_clip has returned to its caller.
SetClipReturn ==
    /\ call.pc = "returned"
    /\ call' = [NoCall EXCEPT !.pending = call.pending]
    /\ UNCHANGED <<clipboard, others>>

\* The clipboard comes to show the text last written to it.
Reflect ==
    /\ call.pending # NoWrite
    /\ clipboard' = call.pending
    /\ call' = [call EXCEPT !.pending = NoWrite]
    /\ UNCHANGED others

InitClip ==
    /\ import_registers = FALSE
    /\ reg_file = NoFile
    /\ max_clips = MaxClips
    /\ explicit_yank_mode = TRUE
    /\ allow_history_duplicates = FALSE
    /\ end_yank_mode_on_emptied_stack = FALSE
    /\ yank_disjoin_multiple_cursors = FALSE
    /\ Loaded

\* A copy or cut between two calls of set_clip, once the clipboard shows
\* what was written to it (a later write is never overtaken by an earlier
\* one).
NextClip ==
    \/ call.pc = "idle" /\ call.pending = NoWrite /\ CopyCut
    \/ SetClipCall
    \/ SetClipTest
    \/ SetClipWrite
    \/ SetClipReturn
    \/ Reflect

\* The plugin's code runs on when it can, and a text written to the
\* clipboard shows up in the end.
SpecClip ==
    /\ InitClip /\ [][NextClip]_vars
    /\ WF_vars(SetClipTest) /\ WF_vars(SetClipWrite) /\ WF_vars(Reflect)

(***************************************************************************)
(* Import from a register file that is edited or deleted while the plugin  *)
(* runs (the entries Edit and Delete of the options menu).                 *)
(***************************************************************************)

File3 == (<<"1">> :> "") @@ (<<"1", "2">> :> "b")

\* The contents the file is given by hand.
EditedFiles == RegFiles \cup {[exists |-> TRUE, data |-> File3]}

\* What the entries Edit and Delete do not touch.
loaded == <<max_clips, heap, YANK, YANK_MODE, settings, clipboard, registers,
            self, panel, Buffer_list, import_registers, command_mode, call>>

\* options.on_done(4): the file is opened, changed by hand and saved.
EditFile ==
    /\ reg_file' \in EditedFiles
    /\ out' = NoOut
    /\ UNCHANGED loaded

\* options.on_done(5): os.remove(reg_json), FileNotFoundError when there is
\* no file.
DeleteFile ==
    /\ reg_file' = NoFile
    /\ out' = [NoOut EXCEPT !.raised = ~ reg_file.exists]
    /\ UNCHANGED loaded

NextImport ==
    \/ RegisterCopy
    \/ RegisterReset
    \/ RegisterImport
    \/ EditFile
    \/ DeleteFile

SpecImport == InitRegister /\ [][NextImport]_vars

(***************************************************************************)
(* The claims.  A claim about what a handler does is stated of the result  *)
(* of that handler, for every input, in every reachable state.             *)
(***************************************************************************)

\* No two positions of l hold the same payload.
NoDuplicates(l) == \A i, j \in 1 .. Len(l) : l[i] = l[j] => i = j

\* The result of a copy/cut event in the current state.
AfterCopy(clip, sel) == append_clipboard([World EXCEPT !.clipboard = clip], sel)

\* C1 (as claimed): with allow_history_duplicates false, HISTORY never holds
\* two entries with equal payload, whether yank mode is on or off.
C1_NoDuplicatePayloads ==
    ~ allow_history_duplicates => NoDuplicates(heap[HISTORY].clips)

Receives(a) ==
    IF a = YANK THEN YANK_MODE ELSE ~ (YANK_MODE /\ explicit_yank_mode)

\* l with x put on top, the oldest entry dropped when l is full.
Pushed(x, l) ==
    IF Len(l) >= max_clips THEN <<x>> \o SubSeq(l, 1, Len(l) - 1) ELSE <<x>> \o l

C3_IndexInRange ==
    \A a \in {HISTORY, YANK} :
        heap[a].clips # <<>>
            => (heap[a].index >= 0 /\ heap[a].index < Len(heap[a].clips))

\* The result of a plain yank (clipboard_manager with yank, without choose)
\* in the current state.
AfterYank == run_yank(World, FALSE)

\* l without its last (oldest) entry.
WithoutBottom(l) == SubSeq(l, 1, Len(l) - 1)

\* C4 (as claimed): a plain yank, with no chooser selection to resume from,
\* pastes the oldest entry of the yank stack and removes exactly the entry at
\* the bottom position, leaving the others in their order.
C4_YankPopsBottom ==
    (~ panel.open /\ self.idx = None /\ heap[YANK].clips # <<>>)
        => /\ AfterYank.out.pasted =
                  <<heap[YANK].clips[Len(heap[YANK].clips)]>>
           /\ AfterYank.heap[AfterYank.YANK].clips =
                  WithoutBottom(heap[YANK].clips)

\* The result of picking entry k in the open quick panel.
AfterPick(k) == on_done(World, k)

\* The result of a plain yank made right after picking entry k.
YankAfterPick(k) == run_yank([AfterPick(k) EXCEPT !.out = NoOut], FALSE)

\* C5 (as claimed): picking the yank-stack entry at position k in the chooser
\* pastes and consumes that entry and saves k as the resume index; the plain
\* yank that follows pastes and consumes the entry at position k - 1 and
\* decrements the resume index; after a pick of position 0 the index goes
\* negative and the yank pops the bottom entry.
C5_YankResumesFromChoice ==
    (/\ panel.open /\ panel.yanking /\ self.pop
     /\ panel.List = YANK /\ self.List = YANK
     /\ panel.lines = heap[YANK].clips)
        => \A k \in 0 .. Len(heap[YANK].clips) - 1 :
             LET clips == heap[YANK].clips
                 p     == AfterPick(k)
                 y     == YankAfterPick(k)
             IN  /\ p.out.pasted = <<clips[k + 1]>>
                 /\ p.heap[p.YANK].clips = list_del(clips, k)
                 /\ p.self.idx = k
                 /\ k >= 1 =>
                      /\ y.out.pasted = <<clips[k]>>
                      /\ y.heap[y.YANK].clips =
                             list_del(list_del(clips, k), k - 1)
                      /\ y.self.idx = k - 1
                 /\ (k = 0 /\ Len(clips) >= 2) =>
                      /\ y.out.pasted = <<clips[Len(clips)]>>
                      /\ y.heap[y.YANK].clips =
                             WithoutBottom(list_del(clips, 0))
                      /\ y.self.idx = None

\* Yank mode is to end when the yank stack is emptied.
EndsOnEmptied ==
    explicit_yank_mode /\ end_yank_mode_on_emptied_stack /\ YANK_MODE

\* C6 (as claimed): with explicit yank mode, yank mode on and
\* end_yank_mode_on_emptied_stack set, a yank that consumes the last entry
\* of the yank stack switches yank mode off, be it a plain yank or the pick
\* of an entry in the yank chooser.
C6_EmptiedStackEndsYankMode ==
    /\ (EndsOnEmptied /\ ~ panel.open /\ heap[YANK].clips # <<>>
        /\ AfterYank.heap[AfterYank.YANK].clips = <<>>)
            => ~ AfterYank.YANK_MODE
    /\ (EndsOnEmptied /\ panel.open /\ panel.yanking /\ heap[YANK].clips # <<>>)
            => \A idx \in 0 .. Len(panel.lines) - 1 :
                   on_done(World, idx).heap[on_done(World, idx).YANK].clips = <<>>
                       => ~ on_done(World, idx).YANK_MODE

\* The head (position 0) of the stack L is the text t.
HeadIs(L, t) == L.clips # <<>> /\ L.clips[1] = t

\* The non-empty texts of the selections, in order.
NonEmpty(sel) == SelectSeq(sel, LAMBDA t : t # "")

\* C7 (as claimed): a copy/cut event in explicit yank mode with yank mode on
\* appends the clip to YANK only, HISTORY unchanged; with yank mode off it
\* appends the clip to HISTORY only, YANK unchanged; with yank mode on and
\* explicit yank mode not configured it appends the clip to both stacks.
C7_RoutingOfClip ==
    \A clip \in Texts : \A sel \in Selections(clip) :
        LET r == AfterCopy(clip, sel) IN
        /\ r.YANK = YANK
        /\ (YANK_MODE /\ explicit_yank_mode)
              => r.heap[HISTORY] = heap[HISTORY] /\ HeadIs(r.heap[YANK], clip)
        /\ ~ YANK_MODE
              => r.heap[YANK] = heap[YANK] /\ HeadIs(r.heap[HISTORY], clip)
        /\ (YANK_MODE /\ ~ explicit_yank_mode)
              => HeadIs(r.heap[YANK], clip) /\ HeadIs(r.heap[HISTORY], clip)

\* What a copy/cut event puts on a stack L that it appends to: the clip; or,
\* with yank mode on and yank_disjoin_multiple_cursors set, unless the clip
\* repeats the head with a single selection, the texts of the non-empty
\* selections (nothing when there is none).
AppendedTo(L, R, clip, sel) ==
    IF /\ YANK_MODE /\ yank_disjoin_multiple_cursors
       /\ ~ (HeadIs(L, clip) /\ Len(sel) = 1)
    THEN IF NonEmpty(sel) = <<>> THEN R = L
         ELSE HeadIs(R, NonEmpty(sel)[Len(NonEmpty(sel))]) /\ R.index = 0
    ELSE HeadIs(R, clip) /\ R.index = 0

\* C7 (amended): the routing is as claimed (YANK only in explicit yank mode
\* with yank mode on, HISTORY only with yank mode off, both otherwise); what
\* is appended is the clip, except that with yank mode on and
\* yank_disjoin_multiple_cursors set the texts of the non-empty selections
\* are appended in its place.
C7_Routing ==
    \A clip \in Texts : \A sel \in Selections(clip) :
        LET r == AfterCopy(clip, sel) IN
        /\ r.YANK = YANK
        /\ (YANK_MODE /\ explicit_yank_mode)
              => /\ r.heap[HISTORY] = heap[HISTORY]
                 /\ AppendedTo(heap[YANK], r.heap[YANK], clip, sel)
        /\ ~ YANK_MODE
              => /\ r.heap[YANK] = heap[YANK]
                 /\ AppendedTo(heap[HISTORY], r.heap[HISTORY], clip, sel)
        /\ (YANK_MODE /\ ~ explicit_yank_mode)
              => /\ AppendedTo(heap[YANK], r.heap[YANK], clip, sel)
                 /\ AppendedTo(heap[HISTORY], r.heap[HISTORY], clip, sel)

\* C7 (witness): in explicit yank mode with yank mode on, copy events have
\* filled YANK with a selection's text that is not the clip, and HISTORY
\* still holds what it held when yank mode was switched on.
C7_Witness ==
    /\ YANK_MODE /\ explicit_yank_mode /\ yank_disjoin_multiple_cursors
    /\ out = NoOut
    /\ heap[YANK].clips # <<>>
    /\ heap[YANK].clips[1] # clipboard
    /\ Len(heap[HISTORY].clips) = 1

\* C8: HISTORY and YANK never hold more than max_clips entries.
C8_LengthWithinCapacity ==
    \A a \in {HISTORY, YANK} : Len(heap[a].clips) <= max_clips

\* C8 (witness): both stacks are full after a copy event, so that the next
\* insertion has to evict.
C8_Witness ==
    /\ out = NoOut
    /\ Len(heap[HISTORY].clips) = max_clips
    /\ Len(heap[YANK].clips) = max_clips
    /\ heap[HISTORY].clips[1] = clipboard

\* The result of the yank-mode toggle in the current state.
AfterToggle == ClipboardManagerYankMode_run(World)

\* C9: the toggle flips YANK_MODE and never changes HISTORY; turning yank
\* mode off in explicit yank mode leaves the yank stack empty; without
\* explicit yank mode the yank stack is unchanged.
C9_ToggleYankMode ==
    /\ AfterToggle.YANK_MODE = ~ YANK_MODE
    /\ AfterToggle.heap[HISTORY] = heap[HISTORY]
    /\ (YANK_MODE /\ explicit_yank_mode)
          => AfterToggle.heap[AfterToggle.YANK].clips = <<>>
    /\ ~ explicit_yank_mode
          => /\ AfterToggle.YANK = YANK
             /\ AfterToggle.heap[YANK] = heap[YANK]

\* C9 (witness): the toggle has just switched yank mode off in explicit yank
\* mode, and HISTORY holds one entry only: no yank was merged into it.
C9_Witness ==
    /\ explicit_yank_mode /\ ~ YANK_MODE
    /\ out = [NoOut EXCEPT !.msgs = {"  YANK MODE:  Off"}]
    /\ heap[YANK].clips = <<>>
    /\ Len(heap[HISTORY].clips) = 1

\* The command whose result is r changed nothing and pasted nothing.
NothingDone(r) ==
    /\ r.heap = heap /\ r.YANK = YANK /\ r.YANK_MODE = YANK_MODE
    /\ r.clipboard = clipboard /\ r.panel = panel /\ r.self.idx = self.idx
    /\ r.Buffer_list = Buffer_list
    /\ r.out.pasted = <<>> /\ ~ r.out.raised

\* C10: paste and choose-and-paste on an empty HISTORY report 'Nothing in
\* history', yank (plain or with the chooser) on an empty YANK reports
\* 'Nothing to yank'; they change neither stack, index, clipboard nor mode
\* flag and issue no native paste.
C10_EmptyStackNoMutation ==
    ~ panel.open =>
        /\ heap[HISTORY].clips = <<>> =>
              \A pop \in BOOLEAN : \A cmd \in {"paste", "choose_and_paste"} :
                  /\ NothingDone(run(World, pop, cmd))
                  /\ run(World, pop, cmd).out.msgs = {"Nothing in history"}
        /\ heap[YANK].clips = <<>> =>
              \A choice \in BOOLEAN :
                  /\ NothingDone(run_yank(World, choice))
                  /\ run_yank(World, choice).out.msgs = {"Nothing to yank"}

\* C10 (witness): a yank has just been refused on an empty yank stack while
\* HISTORY is empty too.
C10_Witness ==
    /\ heap[YANK].clips = <<>> /\ heap[HISTORY].clips = <<>>
    /\ out = [NoOut EXCEPT !.msgs = {"Nothing to yank"}]

\* The index of L is a position of L.
InRange(L) == L.index # None /\ L.index >= 0 /\ L.index < Len(L.clips)

\* C11: next() decrements the index by one when it is > 0 and leaves it
\* alone at 0; previous() increments it by one when it is < length - 1 and
\* leaves it alone at length - 1; neither changes the entries, and an index
\* within 0 .. length - 1 stays within it.
C11_NextPreviousStayInRange ==
    LET L == heap[HISTORY]
        n == HistoryList_next(World, HISTORY).heap[HISTORY]
        p == HistoryList_previous(World, HISTORY).heap[HISTORY]
    IN  /\ n.clips = L.clips /\ p.clips = L.clips
        /\ n.index = IF L.index # None /\ L.index > 0
                      THEN L.index - 1 ELSE L.index
        /\ p.index = IF L.index # None /\ L.index < Len(L.clips) - 1
                      THEN L.index + 1 ELSE L.index
        /\ InRange(L) => InRange(n) /\ InRange(p)
        /\ InRange(L) => /\ ~ HistoryList_next(World, HISTORY).out.raised
                         /\ ~ HistoryList_previous(World, HISTORY).out.raised

\* C11 (witness): previous() has moved the index to the oldest of two
\* entries, where a further previous() has to leave it.
C11_Witness ==
    /\ Len(heap[HISTORY].clips) = 2
    /\ heap[HISTORY].index = 1
    /\ clipboard = heap[HISTORY].clips[2]
    /\ out = NoOut


\* The object at HISTORY as HistoryList() creates it.
Fresh(w) == [w EXCEPT !.heap[HISTORY] = EmptyList]

\* What a caller can see of the object at HISTORY and of the host.
Observed(w) ==
    [clips         |-> w.heap[HISTORY].clips,
     current_index |-> current_index(w.heap[HISTORY]),
     clipboard     |-> w.clipboard,
     out           |-> w.out]

\* The operations that may follow: append(item) with selections sel, next(),
\* previous().
FollowUps ==
    {<<"next">>, <<"previous">>}
        \cup UNION {{<<"append", item, sel>> : sel \in Selections(item)} :
                       item \in Texts}

\* The operation o applied to the object at HISTORY, its output taken alone.
Follow(w, o) ==
    LET w0 == [w EXCEPT !.out = NoOut] IN
    CASE o[1] = "next" -> HistoryList_next(w0, HISTORY)
      [] o[1] = "previous" -> HistoryList_previous(w0, HISTORY)
      [] o[1] = "append" -> HistoryList_append(w0, HISTORY, o[2], o[3])

\* first() or last() on an empty stack is safe: no exception, no entry,
\* current_index() is None, 'Nothing in history' is reported, the clipboard
\* is left alone, and one or two operations that follow show what they show
\* on a new object.
SafeOnEmpty(r) ==
    /\ ~ r.out.raised
    /\ r.heap[HISTORY].clips = <<>>
    /\ current_index(r.heap[HISTORY]) = None
    /\ current(r.heap[HISTORY]) = NoClip
    /\ r.out.msgs = {"Nothing in history"}
    /\ r.clipboard = clipboard
    /\ \A o1 \in FollowUps :
          /\ Observed(Follow(r, o1)) = Observed(Follow(Fresh(World), o1))
          /\ \A o2 \in FollowUps :
                Observed(Follow(Follow(r, o1), o2)) =
                    Observed(Follow(Follow(Fresh(World), o1), o2))

\* C12: first() sets the index to length - 1 and last() sets it to 0; on an
\* empty stack both are safe: current_index() stays None, 'Nothing in
\* history' is reported, and append, next, previous and current behave
\* afterwards as on a newly created stack.
C12_FirstLast ==
    LET L == heap[HISTORY]
        f == HistoryList_first(World, HISTORY)
        l == HistoryList_last(World, HISTORY)
    IN  /\ f.heap[HISTORY].clips = L.clips /\ l.heap[HISTORY].clips = L.clips
        /\ f.heap[HISTORY].index = Len(L.clips) - 1
        /\ l.heap[HISTORY].index = 0
        /\ L.clips # <<>> =>
              /\ current(f.heap[HISTORY]) = L.clips[Len(L.clips)]
              /\ current(l.heap[HISTORY]) = L.clips[1]
        /\ L.clips = <<>> => SafeOnEmpty(f) /\ SafeOnEmpty(l)

\* C12 (witness): first() has just run on an empty stack: it left the index
\* at -1 and reported 'Nothing in history'.
C12_Witness ==
    /\ heap[HISTORY] = [clips |-> <<>>, index |-> -1]
    /\ out = [NoOut EXCEPT !.msgs = {"Nothing in history"}]


\* The register keys among the first characters of the texts entered.
EnteredKeys ==
    {k \in {<<s[1]>> : s \in Entered \ {<<>>}} : str_in(k, chars)}

\* What a native copy can leave on the clipboard: a text, or what is there.
Payloads == Texts \cup {clipboard}

\* The result of registering the clipboard's payload under key, and of
\* pasting from key.
AfterRegisterCopy(key, clip) ==
    ClipboardManagerRegister_copy(World, key, clip, <<clip>>)

AfterRegisterPaste(key) == ClipboardManagerRegister_paste(World, key)

\* C13 (as claimed): for every key and every payload, registering the
\* payload under the key stores it, over any previous value, so that a
\* paste from the key pastes exactly that payload; and a paste from a key
\* without entry reports that there is no such register and pastes nothing.
C13_SetThenGet ==
    \A key \in EnteredKeys :
        /\ \A clip \in Payloads :
              LET r == AfterRegisterCopy(key, clip) IN
              /\ ~ r.out.raised
              /\ key \in DOMAIN r.registers
              /\ r.registers[key] = clip
              /\ ClipboardManagerRegister_paste(
                     [r EXCEPT !.out = NoOut], key).out.pasted = <<clip>>
        /\ key \notin DOMAIN registers =>
              /\ AfterRegisterPaste(key).out.pasted = <<>>
              /\ AfterRegisterPaste(key).out.msgs = {"   Not a valid register"}

\* The command whose result is r left the register store, the clipboard,
\* both stacks and the mode flags as they were, and pasted nothing.
NothingRegistered(r) ==
    /\ r.registers = registers /\ r.clipboard = clipboard
    /\ r.heap = heap /\ r.YANK = YANK /\ r.YANK_MODE = YANK_MODE
    /\ r.command_mode = command_mode
    /\ r.out.pasted = <<>> /\ ~ r.out.raised

\* C14: pasting from, or setting the clipboard to, a register key without
\* entry reports 'Not a valid register' and changes neither the register
\* store, the clipboard, HISTORY nor YANK, and issues no native paste.
C14_UnsetRegisterNoMutation ==
    \A s \in Entered : \A mode \in {"paste", "set"} :
        (s # <<>> /\ str_in(<<s[1]>>, chars) /\ <<s[1]>> \notin DOMAIN registers)
            => LET r == on_change(World, mode, s, clipboard, <<>>) IN
               /\ NothingRegistered(r)
               /\ r.out.msgs = {"   Not a valid register"}

\* C14 (witness): a paste from a key without entry has just been refused
\* while another register holds a text.
C14_Witness ==
    /\ out = [NoOut EXCEPT !.msgs = {"   Not a valid register"}]
    /\ \E k \in DOMAIN registers : registers[k] \in Texts
    /\ \E k \in EnteredKeys : k \notin DOMAIN registers

\* The characters of the category that reset_register(what) resets.
Category(what) ==
    CASE what = "numbers" -> chars_of(numbers)
      [] what = "lettersl" -> chars_of(lettersl)
      [] what = "lettersu" -> chars_of(lettersu)

\* C15: resetting a category (numbers, lettersl, lettersu) sets each of its
\* keys to the empty string, creating the key when absent, and leaves every
\* other key with its value; resetting all leaves no key.  The entries 1, 2
\* and 3 of the Reset menu reset the three categories, entry 0 all.
C15_ResetCategory ==
    /\ \A what \in {"numbers", "lettersl", "lettersu"} :
          LET r == reset_register(World, what).registers IN
          /\ DOMAIN r = DOMAIN registers \cup Category(what)
          /\ \A k \in Category(what) : r[k] = ""
          /\ \A k \in DOMAIN registers \ Category(what) : r[k] = registers[k]
    /\ DOMAIN reset_register(World, "all").registers = {}
    /\ \A ix \in 0 .. 3 :
          ClipboardManagerRegister_reset(World, ix) =
              reset_register(World, reset_what(ix))
    /\ ClipboardManagerRegister_reset(World, -1) = World

\* C15 (witness): the numbers have been reset (every digit key holds the
\* empty string) while an uppercase key still holds its text.
C15_Witness ==
    /\ \A k \in chars_of(numbers) : k \in DOMAIN registers /\ registers[k] = ""
    /\ <<"Z">> \in DOMAIN registers /\ registers[<<"Z">>] \in Texts

\* C16 (as claimed): every key of the register store is one character of
\* the alphabet of digits, lowercase and uppercase letters.
C16_KeysInAlphabet ==
    \A k \in DOMAIN registers : Len(k) = 1 /\ str_in(k, chars)


\* The results of the two clear commands in the current state.
AfterClearHistory == run(World, FALSE, "clear_history")

AfterClearYank == run(World, FALSE, "clear_yank_list")

\* C17: clear_history empties HISTORY and sets its index to 0, leaving the
\* registers and the yank stack as they were; clear_yank_list empties YANK,
\* leaving HISTORY (entries and index) and the registers as they were.
C17_ClearFrames ==
    /\ AfterClearHistory.heap[HISTORY] = [clips |-> <<>>, index |-> 0]
    /\ AfterClearHistory.registers = registers
    /\ AfterClearHistory.YANK = YANK
    /\ AfterClearHistory.heap[YANK] = heap[YANK]
    /\ AfterClearYank.heap[AfterClearYank.YANK].clips = <<>>
    /\ AfterClearYank.heap[HISTORY] = heap[HISTORY]
    /\ AfterClearYank.registers = registers

\* C17 (witness): the history has just been cleared while a register holds
\* a text and the yank stack holds an entry.
C17_Witness ==
    /\ out = [NoOut EXCEPT !.msgs = {"Clipboard history cleared"}]
    /\ heap[HISTORY].clips = <<>>
    /\ heap[YANK].clips # <<>>
    /\ \E k \in DOMAIN registers : registers[k] \in Texts


\* C18 (as claimed): the await-command action turns command mode on; a
\* command of clipboard manager (a command of the dispatcher, a yank, the
\* yank-mode toggle, the pick of an entry in the quick panel) leaves it as
\* it is, on or off; a text command that is not of clipboard manager, a
\* copy or cut included, turns it off.
C18_CommandModeStays ==
    /\ ClipboardManagerCommandMode_run(World).command_mode
    /\ ~ text_command(World).command_mode
    /\ \A clip \in Texts : ~ copy_cut(World, clip, <<clip>>).command_mode
    /\ ClipboardManagerYankMode_run(World).command_mode = command_mode
    /\ ~ panel.open =>
          /\ \A pop \in BOOLEAN : \A cmd \in Commands :
                run(World, pop, cmd).command_mode = command_mode
          /\ \A choice \in BOOLEAN :
                run_yank(World, choice).command_mode = command_mode
    /\ panel.open =>
          \A idx \in -1 .. Len(panel.lines) - 1 :
              on_done(World, idx).command_mode = command_mode


\* The list HISTORY after append(item) with the selections sel in the view.
Appended(item, sel) == HistoryList_append(World, HISTORY, item, sel).heap[HISTORY]

\* item repeats the entry at position 0 of HISTORY.
RepeatsHead(item) ==
    heap[HISTORY].clips # <<>> /\ heap[HISTORY].clips[1] = item

\* append(item) takes the branch of yank_disjoin_multiple_cursors: yank
\* mode is on, the setting is set, and item does not repeat the head entry
\* with a single selection.
Disjoined(item, sel) ==
    /\ YANK_MODE
    /\ yank_disjoin_multiple_cursors
    /\ ~ (RepeatsHead(item) /\ Len(sel) = 1)

\* append(item) inserts item and takes no other occurrence of it away: item
\* is not the head entry (in yank mode: or there are several selections),
\* and, with yank mode off and duplicates not allowed, it is not in the list.
InsertsAnew(item, sel) ==
    LET clips == heap[HISTORY].clips IN
    IF YANK_MODE THEN ~ (RepeatsHead(item) /\ Len(sel) = 1)
    ELSE /\ ~ RepeatsHead(item)
         /\ allow_history_duplicates \/ ~ list_in(item, clips)

\* The first n entries of s (all of s when it is shorter).
Front(s, n) == SubSeq(s, 1, IF Len(s) < n THEN Len(s) ELSE n)

\* The non-empty texts of sel, the last one first.
RECURSIVE Stacked(_)
Stacked(sel) ==
    IF sel = <<>> THEN <<>>
    ELSE Stacked(Tail(sel)) \o (IF Head(sel) # "" THEN <<Head(sel)>> ELSE <<>>)

\* C19 (amended): after append(x), unless the branch of
\* yank_disjoin_multiple_cursors is taken, the entry at position 0 is x and
\* the index is 0; when x is inserted anew into a full list exactly the tail
\* entry is evicted and the other entries keep their order.  In the branch
\* of yank_disjoin_multiple_cursors the non-empty selection texts are
\* inserted one by one in place of x, each with the same eviction, and the
\* list and its index are untouched when every selection is empty.
C19_AppendPutsAtHead ==
    LET L == heap[HISTORY] IN
    \A item \in Texts : \A sel \in Selections(item) :
        LET A == Appended(item, sel) IN
        IF Disjoined(item, sel)
        THEN /\ A.clips = Front(Stacked(sel) \o L.clips, max_clips)
             /\ A.index = IF Stacked(sel) = <<>> THEN L.index ELSE 0
        ELSE /\ A.clips # <<>> /\ A.clips[1] = item
             /\ A.index = 0
             /\ InsertsAnew(item, sel) /\ Len(L.clips) = max_clips =>
                    A.clips = <<item>> \o SubSeq(L.clips, 1, Len(L.clips) - 1)
             /\ InsertsAnew(item, sel) /\ Len(L.clips) < max_clips =>
                    A.clips = <<item>> \o L.clips

\* C19 (witness): HISTORY is full with its index off 0 and duplicates are
\* allowed, and an append of a text other than the head entry evicts the
\* tail entry.
C19_Witness ==
    LET L == heap[HISTORY] IN
    /\ Len(L.clips) = max_clips
    /\ L.index # 0
    /\ ~ YANK_MODE
    /\ allow_history_duplicates
    /\ \E item \in Texts :
           /\ ~ RepeatsHead(item)
           /\ Appended(item, <<item>>) =
                  [clips |-> <<item, L.clips[1]>>, index |-> 0]

\* C19 (as claimed): after any append(x) the entry at position 0 is x and
\* the index is 0, and an insertion that makes the length exceed the
\* capacity evicts exactly the tail entry.
C19_AppendedIsHead ==
    LET L == heap[HISTORY] IN
    \A item \in Texts : \A sel \in Selections(item) :
        LET A == Appended(item, sel) IN
        /\ A.clips # <<>> /\ A.clips[1] = item
        /\ A.index = 0
        /\ InsertsAnew(item, sel) /\ Len(L.clips) = max_clips =>
               A.clips = <<item>> \o SubSeq(L.clips, 1, Len(L.clips) - 1)


\* l without its entry at position i (counted from 0).
Without(l, i) == SubSeq(l, 1, i) \o SubSeq(l, i + 2, Len(l))

\* C20 (as claimed): on a non-empty HISTORY, paste without pop puts the
\* entry at the index on the clipboard, issues the native paste and changes
\* neither HISTORY, its index, YANK nor the registers; paste with pop does
\* the same and takes exactly the entry at the index out of HISTORY.
C20_PasteFrames ==
    LET L == heap[HISTORY] IN
    ~ panel.open /\ L.clips # <<>> =>
        \A pop \in BOOLEAN :
            LET R == run(World, pop, "paste") IN
            /\ ~ R.out.raised
            /\ L.index \in 0 .. Len(L.clips) - 1
            /\ R.clipboard = L.clips[L.index + 1]
            /\ R.out.pasted = <<L.clips[L.index + 1]>>
            /\ R.heap[HISTORY].index = L.index
            /\ R.heap[HISTORY].clips =
                   IF pop THEN Without(L.clips, L.index) ELSE L.clips
            /\ R.heap[YANK] = heap[YANK]
            /\ R.registers = registers
            /\ R.YANK_MODE = YANK_MODE


\* The index operations of HistoryList on HISTORY: at(i) for the positions
\* i >= 0 a caller passes, next, previous, first and last.
IndexOps ==
    {<<"at", i>> : i \in 0 .. MaxClips}
        \cup {<<"next", 0>>, <<"previous", 0>>, <<"first", 0>>, <<"last", 0>>}

IndexOp(w, op) ==
    CASE op[1] = "at" -> HistoryList_at(w, HISTORY, op[2])
      [] op[1] = "next" -> HistoryList_next(w, HISTORY)
      [] op[1] = "previous" -> HistoryList_previous(w, HISTORY)
      [] op[1] = "first" -> HistoryList_first(w, HISTORY)
      [] op[1] = "last" -> HistoryList_last(w, HISTORY)

\* C21 (as claimed): on a non-empty HISTORY, at(i) sets the index to i when
\* i < length and to 0 otherwise, and after each of at, next, previous,
\* first and last the clipboard holds the payload of the entry at the
\* resulting index, whatever the payload, the empty string included.
C21_ClipboardFollowsIndex ==
    LET L == heap[HISTORY] IN
    L.clips # <<>> =>
        \A op \in IndexOps :
            LET R == IndexOp(World, op)
                A == R.heap[HISTORY]
            IN  /\ ~ R.out.raised
                /\ A.clips = L.clips
                /\ op[1] = "at" =>
                       A.index = IF op[2] < Len(L.clips) THEN op[2] ELSE 0
                /\ R.clipboard = current(A)


\* C22 (as claimed): whatever happened since the quick panel was shown, a
\* pick of position idx pastes the entry whose label is shown there, and
\* when yanking takes one entry of that payload, and nothing else, out of
\* the stack the panel was opened on; the panel is closed by the callback.
C22_ChoiceIsIndexPreserving ==
    panel.open =>
        \A idx \in 0 .. Len(panel.lines) - 1 :
            LET R     == on_done(World, idx)
                label == panel.lines[idx + 1]
                clips == heap[panel.List].clips
            IN  /\ ~ R.out.raised
                /\ R.out.pasted = <<label>>
                /\ R.clipboard = label
                /\ ~ R.panel.open
                /\ panel.yanking =>
                       \E i \in 0 .. Len(clips) - 1 :
                           /\ clips[i + 1] = label
                           /\ R.heap[panel.List].clips = Without(clips, i)


\* The oldest entry of the yank stack of w.
Oldest(w) == w.heap[w.YANK].clips[Len(w.heap[w.YANK].clips)]

\* w once its command is over, its output forgotten.
Over(w) == [w EXCEPT !.out = NoOut]

\* The yank stack cleared, then refilled by the copies of the texts of
\* refill, one after the other.
RECURSIVE Refilled(_, _)
Refilled(w, refill) ==
    IF refill = <<>> THEN Over(run(w, FALSE, "clear_yank_list"))
    ELSE Over(copy_cut(Refilled(w, SubSeq(refill, 1, Len(refill) - 1)),
                       refill[Len(refill)], <<refill[Len(refill)]>>))

\* C23 (as claimed): a plain yank pastes the oldest entry of the yank stack
\* when the last pick was made in the chooser of HISTORY, with no pick of
\* the yank chooser pending, and when the yank stack has been cleared and
\* refilled by copies since the last pick.
C23_ResumeOnlyFromYankChooser ==
    /\ (panel.open /\ ~ panel.yanking /\ self.idx = None
            /\ heap[YANK].clips # <<>>) =>
           \A k \in 0 .. Len(panel.lines) - 1 :
               LET p == on_done(World, k)
                   y == run_yank(Over(p), FALSE)
               IN  ~ p.out.raised =>
                       /\ ~ y.out.raised
                       /\ y.out.pasted = <<Oldest(p)>>
    /\ (~ panel.open /\ YANK_MODE) =>
           \A refill \in UNION {[1 .. n -> Texts] : n \in 1 .. MaxClips} :
               LET w == Refilled(World, refill)
                   y == run_yank(w, FALSE)
               IN  /\ ~ y.out.raised
                   /\ y.out.pasted = <<Oldest(w)>>


\* C24 (as claimed): whenever explicit yank mode is configured and yank
\* mode is off, the yank stack is empty.
C24_YankEmptyWhenExplicitAndOff ==
    (explicit_yank_mode /\ ~ YANK_MODE) => heap[YANK].clips = <<>>


\* C25 (as claimed): when the quick panel is cancelled (on_done gets -1),
\* nothing is pasted, no stack loses or gains an entry, the saved chooser
\* index idx keeps its value, and the index of the stack the panel was
\* opened on is 0.
C25_CancelledChooser ==
    panel.open =>
        LET R == on_done(World, -1) IN
        /\ ~ R.out.raised
        /\ R.out.pasted = <<>>
        /\ \A a \in Addr : R.heap[a].clips = heap[a].clips
        /\ R.YANK = YANK
        /\ R.self.idx = self.idx
        /\ R.heap[panel.List].index = 0


\* C26: set_clip(s) returns only when the clipboard reads s; it writes
\* nothing when the clipboard reads s at the call; and a call always
\* returns, given that a written text shows up on the clipboard in the end.
C26_SetClipReturnsOnEqual ==
    /\ [](call.pc = "returned" => clipboard = call.s)
    /\ [](call.same => ~ call.wrote)
    /\ (call.pc = "test") ~> (call.pc = "returned")

\* C26 (witness): set_clip has returned after a write that the clipboard
\* did not show at once (the test was made more than once).
C26_Witness ==
    /\ call.pc = "returned"
    /\ call.wrote
    /\ ~ call.same
    /\ clipboard = call.s


\* The keys of the category of entry ix of the Import menu: all the keys,
\* the digits, the lowercase letters, the uppercase letters.
ImportCategory(ix) ==
    CASE ix = 0 -> chars_of(chars)
      [] ix = 1 -> chars_of(numbers)
      [] ix = 2 -> chars_of(lettersl)
      [] ix = 3 -> chars_of(lettersu)

\* C27 (as claimed): after the import of a category, every key of the
\* category that the file holds has the file's value in the live store,
\* and every live key outside the category or absent from the file keeps
\* its value.
C27_ImportMerges ==
    reg_file.exists =>
        \A ix \in 0 .. 3 :
            LET R    == import_from(World, ix).registers
                data == reg_file.data
                cat  == ImportCategory(ix)
            IN  /\ \A k \in cat \cap DOMAIN data :
                       k \in DOMAIN R /\ R[k] = data[k]
                /\ \A k \in DOMAIN registers :
                       (k \notin cat \/ k \notin DOMAIN data) =>
                           k \in DOMAIN R /\ R[k] = registers[k]

\* C27 (as claimed, its second half alone): the import of a category
\* leaves every live key outside the category with its value.
C27_OutsideCategoryKept ==
    reg_file.exists =>
        \A ix \in 0 .. 3 :
            LET R == import_from(World, ix).registers IN
            \A k \in DOMAIN registers \ ImportCategory(ix) :
                k \in DOMAIN R /\ R[k] = registers[k]


\* C28 (as claimed): when the register file does not exist, an import ends
\* without an exception and leaves the live register store as it is,
\* whichever entry of the Import menu is taken.
C28_ImportWithoutFile ==
    ~ reg_file.exists =>
        \A ix \in MenuEntries :
            LET R == import_from(World, ix) IN
            /\ ~ R.out.raised
            /\ R.registers = registers

=============================================================================
